---- MODULE Spec2Model ----
(***************************************************************************)
(* language.h: the localization table of the weather station display.      *)
(*                                                                         *)
(* The header is a translation-unit fragment: two optional #define lines   *)
(* (the selector), one #ifdef LANGUAGE_FR / #else / #endif conditional and,*)
(* in each group, ten declarations of global pointers (days, months and    *)
(* eight labels).  The model runs the preprocessor over the 29 lines, one  *)
(* line per step, building the symbol table of the image; once the last    *)
(* line is passed the program runs and reads the table (days[i], months[i],*)
(* the labels).  Editing the selector lines and rebuilding starts over.    *)
(***************************************************************************)
EXTENDS Integers, Sequences, FiniteSets, TLC

\* ------------------------------------------------------------------ bounds
\* How far below 0 and beyond the last entry the indices of a lookup range.
MaxOver == 1
\* How many times the selector is edited and the image rebuilt.
MaxRebuilds == 1

\* ------------------------------------------------------- the header's data
\* language.h:7
FrDays == << "Dimanche", "Lundi", "Mardi", "Mercredi", "Jeudi", "Vendredi", "Samedi" >>
FrMonthsBlank ==
    << "Janvier", "", "Mars", "Avril", "Mai", "Juin", "Juillet",
       "", "Septembre", "Octobre", "Novembre", "" >>
\* language.h:8
FrMonths == << "Janvier", "Février", "Mars", "Avril", "Mai", "Juin", "Juillet",
               "Août", "Septembre", "Octobre", "Novembre", "Décembre" >>
EnDaysMondayFirst ==
    << "Monday", "Tuesday", "Wednesday", "Thursday", "Friday", "Saturday", "Sunday" >>
\* language.h:19
EnDays == << "Sunday", "Monday", "Tuesday", "Wednesday", "Thursday", "Friday", "Saturday" >>
EnMonthsShort ==
    << "January", "February", "March", "April", "May", "July",
       "August", "September", "October", "November", "December" >>
\* language.h:20
EnMonths == << "January", "February", "March", "April", "May", "June", "July",
               "August", "September", "October", "November", "December" >>

Comment == [kind |-> "comment", name |-> "", value |-> ""]
Blank == [kind |-> "blank", name |-> "", value |-> ""]
Define(macro, uncommented) ==
    IF uncommented THEN [kind |-> "define", name |-> macro, value |-> ""] ELSE Comment
DeclUntranslated(sym, v) ==
    [kind |-> "decl", name |-> sym,
     value |-> IF sym = "forecast_text" THEN "Forecast" ELSE v]
Decl(sym, v) == [kind |-> "decl", name |-> sym, value |-> v]

\* language.h:5-16, the #ifdef line and its group
FrGroup ==
    << [kind |-> "ifdef", name |-> "LANGUAGE_FR", value |-> ""],
       Comment,
       Decl("days", FrDays),
       Decl("months", FrMonths),
       Decl("today_text", "Aujourd'hui"),
       Decl("forecast_text", "Previsions"),
       Decl("ha_sensor_text", "Capteurs Home Assistant"),
       Decl("crypto_text", "Crypto"),
       Decl("battery_text", "Batterie"),
       Decl("indoor_text", "Interieur"),
       Decl("outdoor_text", "Exterieur"),
       Decl("other_text", "Serre") >>

\* language.h:17-29, the #else line, its group and #endif
EnGroup ==
    << [kind |-> "else", name |-> "", value |-> ""],
       Comment,
       Decl("days", EnDays),
       Decl("months", EnMonths),
       Decl("today_text", "Today"),
       Decl("forecast_text", "Forecast"),
       Decl("ha_sensor_text", "Home Assistant sensors"),
       Decl("crypto_text", "Crypto"),
       Decl("battery_text", "Battery"),
       Decl("indoor_text", "Indoor"),
       Decl("outdoor_text", "Outdoor"),
       Decl("other_text", "Other"),
       [kind |-> "endif", name |-> "", value |-> ""] >>

\* language.h:1-4, with line 2 and line 3 commented out or not
Selector(fr, en) ==
    << Comment, Define("LANGUAGE_FR", fr), Define("LANGUAGE_EN", en), Blank >>

\* The whole file as the preprocessor reads it.
Header(fr, en) == Selector(fr, en) \o FrGroup \o EnGroup

ArraySymbols == {"days", "months"}
LabelSymbols == {"today_text", "forecast_text", "ha_sensor_text", "crypto_text",
                 "battery_text", "indoor_text", "outdoor_text", "other_text"}
Symbols == ArraySymbols \cup LabelSymbols

\* ------------------------------------------------------------------- state
VARIABLES
    defFR,      \* line 2 is  #define LANGUAGE_FR  (TRUE) or  //#define LANGUAGE_FR
    defEN,      \* line 3 is  #define LANGUAGE_EN  (TRUE) or  //#define LANGUAGE_EN
    status,     \* "compiling", "running", "faulted" or "error" (build failed)
    pc,         \* the line the preprocessor is at
    macros,     \* the macros defined so far
    skipping,   \* inside a conditional group that is not taken
    symtab,     \* the globals declared so far: symbol -> value
    declaredAt, \* symbol -> the line that declared it
    result,     \* what the last read of the table gave
    remembered, \* some earlier read of this image, kept for comparison
    prevtab,    \* the table of the image built before the last selector edit
    prevFR,     \* whether that image was built with LANGUAGE_FR defined
    rebuilds    \* selector edits so far

vars == << defFR, defEN, status, pc, macros, skipping, symtab, declaredAt,
           result, remembered, prevtab, prevFR, rebuilds >>

Empty == [s \in {} |-> ""]
NoRead == [arr |-> "", idx |-> 0, kind |-> "none", value |-> ""]

Init ==
    /\ defFR \in BOOLEAN
    /\ defEN \in BOOLEAN
    /\ status = "compiling"
    /\ pc = 1
    /\ macros = {}
    /\ skipping = FALSE
    /\ symtab = Empty
    /\ declaredAt = Empty
    /\ result = NoRead
    /\ remembered = NoRead
    /\ prevtab = Empty
    /\ prevFR = FALSE
    /\ rebuilds = 0

\* ------------------------------------------------------- the preprocessor
Line == Header(defFR, defEN)[pc]
LastLine == Len(Header(defFR, defEN))

IfndefTaken(defined, name) == name \notin defined
\* #ifdef NAME takes its group when NAME is defined (language.h:5).
IfdefTaken(defined, name) == name \in defined

ElseNeverSkips(wasSkipping) == FALSE
ElseKeepsSkipping(wasSkipping) == wasSkipping
\* #else takes its group exactly when the #ifdef group was not taken
\* (language.h:17): the skipping flag after the #else line.
ElseSkips(wasSkipping) == ~wasSkipping

\* Passing a line; passing the last one ends the build and the program runs.
Advance ==
    /\ pc' = pc + 1
    /\ status' = IF pc = LastLine THEN "running" ELSE status

Compiling == status = "compiling" /\ pc <= LastLine

\* A comment, a blank line, or any line of a group that is not taken.
PassLine ==
    /\ Compiling
    /\ \/ Line.kind \in {"comment", "blank"}
       \/ skipping /\ Line.kind \in {"define", "decl"}
    /\ Advance
    /\ UNCHANGED << defFR, defEN, macros, skipping, symtab, declaredAt,
                    result, remembered, prevtab, prevFR, rebuilds >>

\* #define NAME (language.h:2, language.h:3 when uncommented)
DefineMacro ==
    /\ Compiling
    /\ Line.kind = "define" /\ ~skipping
    /\ macros' = macros \cup {Line.name}
    /\ Advance
    /\ UNCHANGED << defFR, defEN, skipping, symtab, declaredAt,
                    result, remembered, prevtab, prevFR, rebuilds >>

\* #ifdef LANGUAGE_FR (language.h:5)
Ifdef ==
    /\ Compiling
    /\ Line.kind = "ifdef"
    /\ skipping' = ~IfdefTaken(macros, Line.name)
    /\ Advance
    /\ UNCHANGED << defFR, defEN, macros, symtab, declaredAt,
                    result, remembered, prevtab, prevFR, rebuilds >>

\* #else (language.h:17)
Else ==
    /\ Compiling
    /\ Line.kind = "else"
    /\ skipping' = ElseSkips(skipping)
    /\ Advance
    /\ UNCHANGED << defFR, defEN, macros, symtab, declaredAt,
                    result, remembered, prevtab, prevFR, rebuilds >>

\* #endif (language.h:29)
Endif ==
    /\ Compiling
    /\ Line.kind = "endif"
    /\ skipping' = FALSE
    /\ Advance
    /\ UNCHANGED << defFR, defEN, macros, symtab, declaredAt,
                    result, remembered, prevtab, prevFR, rebuilds >>

\* const char *sym = ...; or const char *sym[] = {...}; in a taken group.
\* A second definition of the same global is a redefinition error.
Declare ==
    /\ Compiling
    /\ Line.kind = "decl" /\ ~skipping
    /\ IF Line.name \in DOMAIN symtab
         THEN /\ status' = "error"
              /\ UNCHANGED << pc, symtab, declaredAt >>
         ELSE /\ symtab' = symtab @@ (Line.name :> Line.value)
              /\ declaredAt' = declaredAt @@ (Line.name :> pc)
              /\ Advance
    /\ UNCHANGED << defFR, defEN, macros, skipping,
                    result, remembered, prevtab, prevFR, rebuilds >>

\* ------------------------------------------------------ reading the table
EntryOffByOne(a, i) == a[((i + 1) % Len(a)) + 1]
\* C indexing of an initialized array: a[0] is the first initializer.
Entry(a, i) == a[i + 1]

InRange(a, i) == 0 <= i /\ i < Len(a)

\* The indices a caller may pass: the array's own and MaxOver on each side.
Indices(a) == (0 - MaxOver) .. (Len(a) - 1 + MaxOver)

Garbage == "<garbage>"

\* What the word next to array arr may point to when read as a char *: the
\* globals laid out around it (the labels, the entries of the other array)
\* or anything else.
StrayStrings(arr) ==
    {Garbage}
      \cup {symtab[l] : l \in LabelSymbols \cap DOMAIN symtab}
      \cup UNION {{Entry(symtab[a], i) : i \in 0 .. (Len(symtab[a]) - 1)} :
                    a \in (ArraySymbols \ {arr}) \cap DOMAIN symtab}

\* The read before this one, when it was a read inside an array.
Memorable(r) ==
    IF r.kind = "value" /\ r.arr \in ArraySymbols /\ InRange(symtab[r.arr], r.idx)
      THEN {r} ELSE {}

ReadOutcomesAnyEntry(arr, i) ==
    {[arr |-> arr, idx |-> i, kind |-> "value", value |-> Entry(symtab[arr], j)] :
        j \in 0 .. (Len(symtab[arr]) - 1)}
\* arr[i] with no bounds check (the arrays are plain C arrays): inside the
\* array the entry; outside it undefined behaviour, which gives some stray
\* pointer or faults.
ReadOutcomes(arr, i) ==
    IF InRange(symtab[arr], i)
      THEN {[arr |-> arr, idx |-> i, kind |-> "value", value |-> Entry(symtab[arr], i)]}
      ELSE {[arr |-> arr, idx |-> i, kind |-> "value", value |-> v] : v \in StrayStrings(arr)}
             \cup {[arr |-> arr, idx |-> i, kind |-> "fault", value |-> ""]}

ArrayRead(arr, i) ==
    /\ status = "running"
    /\ arr \in DOMAIN symtab
    /\ \E o \in ReadOutcomes(arr, i) :
          /\ result' = o
          /\ status' = IF o.kind = "fault" THEN "faulted" ELSE status
          /\ remembered' \in {remembered} \cup Memorable(result)
    /\ UNCHANGED << defFR, defEN, pc, macros, skipping, symtab, declaredAt,
                    prevtab, prevFR, rebuilds >>

\* days[i]
DayLookup(i) == ArrayRead("days", i)

\* months[i]
MonthLookup(i) == ArrayRead("months", i)

ReadLabelAssigns(l) ==
    /\ status = "running"
    /\ l \in DOMAIN symtab
    /\ result' = [arr |-> l, idx |-> 0, kind |-> "value", value |-> symtab[l]]
    /\ symtab' = [symtab EXCEPT ![l] = symtab["crypto_text"]]
    /\ UNCHANGED << defFR, defEN, status, pc, macros, skipping,
                    declaredAt, remembered, prevtab, prevFR, rebuilds >>
\* today_text, forecast_text, ...
ReadLabel(l) ==
    /\ status = "running"
    /\ l \in DOMAIN symtab
    /\ result' = [arr |-> l, idx |-> 0, kind |-> "value", value |-> symtab[l]]
    /\ UNCHANGED << defFR, defEN, status, pc, macros, skipping, symtab,
                    declaredAt, remembered, prevtab, prevFR, rebuilds >>

\* ------------------------------------------------- switching the selector
\* "Uncomment the language you want to display on the screen" (language.h:1):
\* lines 2 and 3 are edited and the program is built again from scratch.
EditSelector(fr, en) ==
    /\ status \in {"running", "faulted"}
    /\ rebuilds < MaxRebuilds
    /\ << fr, en >> # << defFR, defEN >>
    /\ defFR' = fr
    /\ defEN' = en
    /\ prevtab' = symtab
    /\ prevFR' = ("LANGUAGE_FR" \in macros)
    /\ rebuilds' = rebuilds + 1
    /\ status' = "compiling"
    /\ pc' = 1
    /\ macros' = {}
    /\ skipping' = FALSE
    /\ symtab' = Empty
    /\ declaredAt' = Empty
    /\ result' = NoRead
    /\ remembered' = NoRead

Next ==
    \/ PassLine
    \/ DefineMacro
    \/ Ifdef
    \/ Else
    \/ Endif
    \/ Declare
    \/ \E i \in Indices(FrDays) : DayLookup(i)
    \/ \E i \in Indices(FrMonths) : MonthLookup(i)
    \/ \E l \in LabelSymbols : ReadLabel(l)
    \/ \E fr \in BOOLEAN, en \in BOOLEAN : EditSelector(fr, en)

Spec == Init /\ [][Next]_vars
\* ------------------------------------------------------------ properties
Built == status \in {"running", "faulted"}

\* The lines of the file each group occupies: the group the comment of
\* language.h:6 calls French and the one language.h:18 calls English.
FrLines == (Len(Selector(TRUE, TRUE)) + 1) .. (Len(Selector(TRUE, TRUE)) + Len(FrGroup))
EnLines == (Len(Selector(TRUE, TRUE)) + Len(FrGroup) + 1) .. LastLine

AllFrom(lines) ==
    \A s \in DOMAIN symtab :
        /\ declaredAt[s] \in lines
        /\ symtab[s] = Header(defFR, defEN)[declaredAt[s]].value

\* C1: for every combination of the two selector flags the build succeeds
\* with exactly one table: at every point the symbols declared so far all
\* come from one group of the header, never some from the French and some
\* from the English one, and once built all ten symbols are there, from the
\* French group when LANGUAGE_FR is defined and from the English otherwise.
C1_OneLocale ==
    /\ status # "error"
    /\ AllFrom(FrLines) \/ AllFrom(EnLines)
    /\ Built => /\ DOMAIN symtab = Symbols
                /\ defFR => AllFrom(FrLines)
                /\ ~defFR => AllFrom(EnLines)

C1_Witness ==
    /\ status = "running" /\ defFR /\ defEN
    /\ DOMAIN symtab = Symbols /\ AllFrom(FrLines)

\* C2: a build with LANGUAGE_FR defined has today_text = "Aujourd'hui"; a
\* build without it (LANGUAGE_EN alone, or neither) has today_text = "Today".
C2_TodayText ==
    Built => /\ defFR => symtab["today_text"] = "Aujourd'hui"
             /\ ~defFR => symtab["today_text"] = "Today"

C2_Witness ==
    /\ status = "running" /\ defEN /\ ~defFR
    /\ result = [arr |-> "today_text", idx |-> 0, kind |-> "value", value |-> "Today"]
    /\ prevFR /\ prevtab["today_text"] = "Aujourd'hui"

\* C3: in the table of either locale days has 7 entries and months has 12.
C3_Lengths ==
    \A t \in {symtab, prevtab} :
        /\ "days" \in DOMAIN t => Len(t["days"]) = 7
        /\ "months" \in DOMAIN t => Len(t["months"]) = 12

C3_Witness ==
    /\ status = "running" /\ rebuilds = 1 /\ prevFR /\ ~defFR
    /\ Len(prevtab["days"]) = 7 /\ Len(symtab["months"]) = 12

WeekFromSunday ==
    << {"Dimanche", "Sunday"}, {"Lundi", "Monday"}, {"Mardi", "Tuesday"},
       {"Mercredi", "Wednesday"}, {"Jeudi", "Thursday"}, {"Vendredi", "Friday"},
       {"Samedi", "Saturday"} >>
YearFromJanuary ==
    << {"Janvier", "January"}, {"Février", "February"}, {"Mars", "March"},
       {"Avril", "April"}, {"Mai", "May"}, {"Juin", "June"}, {"Juillet", "July"},
       {"Août", "August"}, {"Septembre", "September"}, {"Octobre", "October"},
       {"Novembre", "November"}, {"Décembre", "December"} >>

Ordered(a, calendar) ==
    /\ Len(a) = Len(calendar)
    /\ \A i \in 0 .. (Len(a) - 1) : Entry(a, i) \in calendar[i + 1]

\* C5: in either locale days[0] is Sunday's name, ..., days[6] Saturday's, and
\* months[0] January's, ..., months[11] December's; so the same index names
\* the same weekday and the same month in both locales.
C5_CalendarOrder ==
    \A t \in {symtab, prevtab} :
        /\ "days" \in DOMAIN t => Ordered(t["days"], WeekFromSunday)
        /\ "months" \in DOMAIN t => Ordered(t["months"], YearFromJanuary)

C5_Witness ==
    /\ Built /\ rebuilds = 1 /\ ~prevFR /\ defFR
    /\ result.arr = "days" /\ result.idx = 0 /\ result.value = "Dimanche"
    /\ Entry(prevtab["days"], 0) = "Sunday"

\* C10: every string of the table is non-empty: each entry of days and of
\* months and each of the eight labels, in either locale.
C10_NonEmpty ==
    \A t \in {symtab, prevtab} :
        /\ \A l \in LabelSymbols \cap DOMAIN t : t[l] # "" /\ Len(t[l]) > 0
        /\ \A a \in ArraySymbols \cap DOMAIN t :
              \A i \in 0 .. (Len(t[a]) - 1) : Entry(t[a], i) # ""

C10_Witness ==
    /\ Built /\ rebuilds = 1 /\ prevFR /\ ~defFR /\ ~defEN
    /\ DOMAIN symtab = Symbols /\ DOMAIN prevtab = Symbols
    /\ result.arr = "months" /\ result.idx = 11 /\ result.value = "December"
ArrayResult == result.arr \in ArraySymbols /\ result.kind \in {"value", "fault"}
OutOfRange == ArrayResult /\ ~(0 <= result.idx /\ result.idx < Len(symtab[result.arr]))

\* C6 as stated: a days or months lookup with an index outside the array is
\* rejected and never returns a string.
C6_OutOfRangeRejected == OutOfRange => result.kind # "value"

\* C6 as amended: a lookup with an index inside the array returns the entry at
\* that index (counting from 0) and no lookup changes the table; an index
\* outside the array is not checked, and the read either faults or returns
\* whatever the neighbouring memory holds.
C6_UncheckedArrays ==
    [][(status = "running" /\ result' # result /\ result'.arr \in ArraySymbols) =>
         /\ symtab' = symtab
         /\ (0 <= result'.idx /\ result'.idx < Len(symtab[result'.arr])) =>
               /\ result'.kind = "value"
               /\ result'.value = symtab[result'.arr][result'.idx + 1]
               /\ status' = "running"
         /\ result'.kind = "fault" <=> status' = "faulted"]_vars

C6_Witness ==
    /\ status = "running" /\ defFR
    /\ result = [arr |-> "days", idx |-> 7, kind |-> "value", value |-> "Janvier"]
    /\ remembered = [arr |-> "days", idx |-> 6, kind |-> "value", value |-> "Samedi"]

InGroup(group, s, v) ==
    \E n \in 1 .. Len(group) :
        group[n].kind = "decl" /\ group[n].name = s /\ group[n].value = v

\* C7 as stated: with neither LANGUAGE_FR nor LANGUAGE_EN defined the build
\* ends in an error and no table becomes active.
C7_UnrecognizedIsError == (~defFR /\ ~defEN /\ pc > LastLine) => status = "error"

\* C7 as amended: no combination of the flags is a build error; whenever
\* LANGUAGE_FR is not defined, LANGUAGE_EN defined or not, so also with
\* neither defined, the #else group is compiled and the English table is the
\* active one.
C7_DefaultsToEnglish ==
    /\ status # "error"
    /\ (pc > LastLine /\ ~defFR) =>
          /\ Built
          /\ "LANGUAGE_FR" \notin macros
          /\ DOMAIN symtab = Symbols
          /\ \A s \in Symbols : InGroup(EnGroup, s, symtab[s])

C7_Witness ==
    /\ status = "running" /\ ~defFR /\ ~defEN /\ macros = {} /\ rebuilds = 0
    /\ result = [arr |-> "other_text", idx |-> 0, kind |-> "value", value |-> "Other"]

Switched == Built /\ rebuilds > 0 /\ prevFR # ("LANGUAGE_FR" \in macros)

DiffersIn(s) ==
    IF s \in ArraySymbols
      THEN \A i \in 1 .. Len(symtab[s]) : prevtab[s][i] # symtab[s][i]
      ELSE prevtab[s] # symtab[s]

\* C8 as stated: after the selector is switched between the two locales every
\* one of the eight labels and every weekday and month name differs from the
\* one of the build before.
C8_EveryLabelChanges == Switched => \A s \in Symbols : DiffersIn(s)

\* C8 as amended: after the selector is switched between the two locales
\* every weekday name, every month name and every label except crypto_text
\* differs from the one of the build before; crypto_text is "Crypto" in both.
\* An edit that does not change whether LANGUAGE_FR is defined changes nothing.
C8_AllButCryptoChange ==
    /\ Switched =>
          /\ \A s \in Symbols \ {"crypto_text"} : DiffersIn(s)
          /\ prevtab["crypto_text"] = "Crypto" /\ symtab["crypto_text"] = "Crypto"
    /\ (Built /\ rebuilds > 0 /\ ~Switched) => prevtab = symtab

C8_Witness ==
    /\ Switched /\ prevFR /\ ~defFR
    /\ prevtab["crypto_text"] = symtab["crypto_text"]
    /\ prevtab["battery_text"] = "Batterie" /\ symtab["battery_text"] = "Battery"
    /\ result = [arr |-> "crypto_text", idx |-> 0, kind |-> "value", value |-> "Crypto"]

SameLookup(r, q) ==
    /\ r.kind = "value" /\ q.kind = "value"
    /\ r.arr \in ArraySymbols /\ r.arr = q.arr /\ r.idx = q.idx

====
